---- MODULE Spec2Model ----
(***************************************************************************)
(* A model of aqueeq_binomial (src/aqueeq_binomial.py): the computation of *)
(* (x + y)^alpha by edge-case resolution, preconditioning, the boundary    *)
(* policy and the generalized binomial series.                             *)
(*                                                                         *)
(* Numbers.  Every complex quantity of the program (x, y, alpha, z, A, S,  *)
(* term, the thresholds) is modelled exactly, as the record                *)
(*      [re, im, d, e]   standing for   (re + im*i) / (d * 10^e)           *)
(* in canonical form: gcd(re, im, d) = 1, d > 0 is coprime to 10, e is any *)
(* integer and re, im are not both divisible by 10 (zero is 0/1, e = 0).   *)
(* Two numbers are equal exactly when their records are equal.  The decimal*)
(* exponent lets the source's literals 1e-16, 1e-14 and 1e-12 be written   *)
(* with small integers.  Rounding, overflow and NaN of the floating-point  *)
(* operations are not modelled: arithmetic and comparisons are those of    *)
(* the exact values.  The arguments have the types of the signature        *)
(* (complex x, y, alpha; float tol, boundary_threshold; int max_terms).    *)
(***************************************************************************)
EXTENDS Integers, Sequences, FiniteSets, TLC

----------------------------------------------------------------------------
(* Integer helpers *)

IAbs(n) == IF n < 0 THEN -n ELSE n

IMax(a, b) == IF a < b THEN b ELSE a

RECURSIVE Gcd(_, _)
Gcd(a, b) == IF b = 0 THEN a ELSE Gcd(b, a % b)

RECURSIVE Pow10(_)
Pow10(n) == IF n = 0 THEN 1 ELSE 10 * Pow10(n - 1)

RECURSIVE IntPow(_, _)
IntPow(b, n) == IF n = 0 THEN 1 ELSE b * IntPow(b, n - 1)

----------------------------------------------------------------------------
(* Exact complex numbers *)

RECURSIVE StripTwos(_, _, _, _)
StripTwos(re, im, den, e) ==
    IF den % 2 = 0 THEN StripTwos(re * 5, im * 5, den \div 2, e + 1)
    ELSE <<re, im, den, e>>

RECURSIVE StripFives(_, _, _, _)
StripFives(re, im, den, e) ==
    IF den % 5 = 0 THEN StripFives(re * 2, im * 2, den \div 5, e + 1)
    ELSE <<re, im, den, e>>

RECURSIVE StripTens(_, _, _, _)
StripTens(re, im, den, e) ==
    IF re = 0 /\ im = 0 THEN <<0, 0, 1, 0>>
    ELSE IF re % 10 = 0 /\ im % 10 = 0
         THEN StripTens(re \div 10, im \div 10, den, e - 1)
         ELSE <<re, im, den, e>>

\* The canonical record of (re + im*i) / (den * 10^e), den > 0.
Complex(re, im, den, e) ==
    LET g  == Gcd(Gcd(IAbs(re), IAbs(im)), den)
        t2 == StripTwos(re \div g, im \div g, den \div g, e)
        t5 == StripFives(t2[1], t2[2], t2[3], t2[4])
        t  == StripTens(t5[1], t5[2], t5[3], t5[4])
    IN  [re |-> t[1], im |-> t[2], d |-> t[3], e |-> t[4]]

FromInt(n) == Complex(n, 0, 1, 0)

Zero == FromInt(0)

One == FromInt(1)

Neg(u) == [re |-> -u.re, im |-> -u.im, d |-> u.d, e |-> u.e]

Add(u, v) ==
    IF u.re = 0 /\ u.im = 0 THEN v
    ELSE IF v.re = 0 /\ v.im = 0 THEN u
    ELSE LET E  == IMax(u.e, v.e)
             su == v.d * Pow10(E - u.e)
             sv == u.d * Pow10(E - v.e)
         IN  Complex(u.re * su + v.re * sv, u.im * su + v.im * sv,
                     u.d * v.d, E)

Mul(u, v) ==
    Complex(u.re * v.re - u.im * v.im, u.re * v.im + u.im * v.re,
            u.d * v.d, u.e + v.e)

\* u / k for an integer k > 0
DivInt(u, k) == Complex(u.re, u.im, u.d * k, u.e)

\* u / v for v # 0: u * conj(v) / |v|^2
Div(u, v) ==
    LET n == v.re * v.re + v.im * v.im
    IN  Complex((u.re * v.re + u.im * v.im) * v.d,
                (u.im * v.re - u.re * v.im) * v.d,
                n * u.d, u.e - v.e)

RealPart(u) == Complex(u.re, 0, u.d, u.e)

\* float.is_integer() of a real value
IsInteger(r) == r.d = 1 /\ r.e <= 0

\* L * 10^p < R for integers L, R >= 0 and any integer p, without forming
\* the power.
RECURSIVE LtP(_, _, _)
LtP(L, R, p) ==
    IF p = 0 THEN L < R
    ELSE IF p > 0
         THEN IF R = 0 THEN FALSE ELSE LtP(L, ((R - 1) \div 10) + 1, p - 1)
         ELSE IF L = 0 THEN 0 < R ELSE LtP(L \div 10, R, p + 1)

Lower(u) == IMax(IAbs(u.re), IAbs(u.im))

Upper(u) == IAbs(u.re) + IAbs(u.im)

NormSq(u) == u.re * u.re + u.im * u.im

\* abs(u) < abs(v).  max(|re|,|im|) <= |re + im*i| <= |re| + |im| decides
\* the comparison whenever the two moduli are apart (always, for reals);
\* otherwise the squares are compared.
AbsLt(u, v) ==
    LET p == v.e - u.e
    IN  IF LtP(Upper(u) * v.d, Lower(v) * u.d, p) THEN TRUE
        ELSE IF ~LtP(Lower(u) * v.d, Upper(v) * u.d, p) THEN FALSE
        ELSE LtP(NormSq(u) * v.d * v.d, NormSq(v) * u.d * u.d, 2 * p)

----------------------------------------------------------------------------
(* Fraction(alpha.real).limit_denominator(1000) *)

MaxDenominator == 1000

\* Fraction(r) of a real value r: <<numerator, denominator>> in lowest terms
Fraction(r) ==
    IF r.e <= 0 THEN <<r.re * Pow10(-r.e), r.d>>
    ELSE LET g == Gcd(IAbs(r.re), Pow10(r.e))
         IN  <<r.re \div g, r.d * (Pow10(r.e) \div g)>>

\* The continued-fraction loop of limit_denominator: the convergents p/q of
\* n/d until the next denominator would exceed maxd.
RECURSIVE Convergents(_, _, _, _, _, _, _)
Convergents(p0, q0, p1, q1, n, d, maxd) ==
    LET a  == n \div d
        q2 == q0 + a * q1
    IN  IF q2 > maxd THEN <<p0, q0, p1, q1>>
        ELSE Convergents(p1, q1, p0 + a * p1, q2, d, n - a * d, maxd)

\* Fraction.limit_denominator: the closest fraction to num/den with a
\* denominator of at most maxd, as <<numerator, denominator>>.
LimitDenominator(num, den, maxd) ==
    IF den <= maxd THEN <<num, den>>
    ELSE LET c   == Convergents(0, 1, 1, 0, num, den, maxd)
             p0  == c[1]
             q0  == c[2]
             p1  == c[3]
             q1  == c[4]
             k   == (maxd - q0) \div q1
             b1n == p0 + k * p1
             b1d == q0 + k * q1
             g1  == Gcd(IAbs(b1n), b1d)
             \* |p1/q1 - num/den| <= |b1n/b1d - num/den|
             closer2 == IAbs(p1 * den - num * q1) * b1d
                          <= IAbs(b1n * den - num * b1d) * q1
         IN  IF closer2 THEN <<p1, q1>> ELSE <<b1n \div g1, b1d \div g1>>

\* frac.denominator % 2 == 1
OddDenominator(alpha) ==
    LET f == Fraction(RealPart(alpha))
    IN  LimitDenominator(f[1], f[2], MaxDenominator)[2] % 2 = 1

\* The guard of the real-odd-root override
RealOddRootApplies(x0, alpha0) ==
    /\ x0.im = 0
    /\ alpha0.im = 0
    /\ x0.re < 0
    /\ OddDenominator(alpha0)

----------------------------------------------------------------------------
(* Results.  Powers, logarithms and exponentials are kept as the expression *)
(* the program evaluates, over exact operands.                             *)

\* base ** exponent, the principal complex power
Pow(base, exponent) ==
    [form |-> "pow", a |-> base, b |-> exponent, s |-> One]

\* complex(-(abs(x.real) ** alpha.real))
NegAbsPow(x0, alpha0) ==
    [form |-> "neg_abs_pow", a |-> RealPart(x0), b |-> RealPart(alpha0),
     s |-> One]

\* 0.0 + 0j
ZeroResult == [form |-> "zero", a |-> Zero, b |-> Zero, s |-> One]

\* cmath.exp(alpha * cmath.log(w))
ExpLog(alpha0, w) == [form |-> "exp_log", a |-> w, b |-> alpha0, s |-> One]

\* cmath.exp(alpha * cmath.log(A)) * S
SeriesResult(A0, alpha0, S0) ==
    [form |-> "series", a |-> A0, b |-> alpha0, s |-> S0]

NoResult == [form |-> "none", a |-> Zero, b |-> Zero, s |-> One]

\* The exact value of abs(x.real) ** (p/q) when it is an integer: the r with
\* r^q = |x|^p, searched up to |x|^p.  Defined for integer x, p >= 0, q >= 1.
AbsRoot(xr, p, q) ==
    LET target == IntPow(IAbs(xr), p)
    IN  CHOOSE r \in 0..target : IntPow(r, q) = target

HasAbsRoot(xr, p, q) ==
    LET target == IntPow(IAbs(xr), p)
    IN  \E r \in 0..target : IntPow(r, q) = target

----------------------------------------------------------------------------
(* Diagnostics *)

None == <<>>

Some(v) == <<v>>

NoInfo ==
    [keys |-> {}, terms_used |-> 0, used_fallback |-> FALSE, z |-> None,
     note |-> "", last_term_abs |-> Zero, converged |-> FALSE, base |-> Zero]

\* The record of a terminal outcome that ends before the series
EdgeInfo(fallback, zval) ==
    [NoInfo EXCEPT !.keys = {"terms_used", "used_fallback", "z"},
                   !.terms_used = 0, !.used_fallback = fallback, !.z = zval]

\* Variant of ZeroOperandZ: "z": None
ZeroOperandZNone == None

\* "z": 0j of the zero-operand outcomes
ZeroOperandZ == Some(Zero)

\* "used_fallback" of the zero-sum outcome
ZeroSumFallback == TRUE

\* "z": None of the outcomes with |x| = |y|
EqualModulusZ == None

----------------------------------------------------------------------------
(* The call *)

VARIABLES
    x, y, alpha, tol, max_terms, boundary_threshold, return_info,
    pc,             \* the statement the call is at
    A, z,           \* the dominant operand and the ratio (Zero until assigned)
    S, term, k, effective_max, used_fallback,
    result, info,   \* what the call returns
    outcome,        \* "running", "returned" or "raised"
    warned,         \* the RuntimeWarnings emitted so far
    iters,          \* how many times the loop body has run
    stop            \* how the loop ended: "none", "floor", "tolerance", "exhausted"

request == <<x, y, alpha, tol, max_terms, boundary_threshold, return_info>>

locals == <<A, z, S, term, k, effective_max, used_fallback>>

loopvars == <<iters, stop>>

vars == <<request, pc, locals, result, info, outcome, warned, loopvars>>

\* The largest max_terms a request carries
MaxTermsHi == 2

I == Complex(0, 1, 1, 0)

\* Real operands of the general requests: 0, 1, 0.8, 5, -5
Operands == {Zero, One, Complex(8, 0, 1, 1), FromInt(5), FromInt(-5)}

\* Real exponents of the general requests: 0, 2, -1, 1/2, -1/2
Exponents ==
    {Zero, FromInt(2), FromInt(-1), Complex(1, 0, 2, 0), Complex(-1, 0, 2, 0)}

\* Complex requests: operands 0, 1, -1, 5, i with exponents i, (1 + i)/2, 2
ComplexOperands == {Zero, One, FromInt(-1), FromInt(5), I}

ComplexExponents == {I, Complex(1, 1, 2, 0), FromInt(2)}

\* y = 0 with a negative or positive real x and fractional exponents:
\* 1/3, 2/3, 0.3333, 1/2, 2, 3, 1/3 + i
RootOperands == {FromInt(-8), FromInt(8)}

RootExponents ==
    {Complex(1, 0, 3, 0), Complex(2, 0, 3, 0), Complex(3333, 0, 1, 4),
     Complex(1, 0, 2, 0), FromInt(2), FromInt(3), Complex(1, 3, 3, 0)}

\* Operands far apart in modulus: z = 2e-8, 2e-8 * i
SmallOperands == {FromInt(2), Complex(0, 2, 1, 0)}

LargeOperands == {Complex(1, 0, 1, -8)}

SmallRatioExponents == {Complex(1, 0, 2, 0), FromInt(2), I}

\* An exponent close to zero, 1e-15, with operands 1, 4, 5, i
TinyExponents == {Complex(1, 0, 1, 15)}

TinyExponentOperands == {One, FromInt(4), FromInt(5), I}

Operations ==
    (Operands \X Operands \X Exponents)
    \cup (ComplexOperands \X ComplexOperands \X ComplexExponents)
    \cup (RootOperands \X {Zero} \X RootExponents)
    \cup (SmallOperands \X LargeOperands \X SmallRatioExponents)
    \cup (LargeOperands \X SmallOperands \X SmallRatioExponents)
    \cup (TinyExponentOperands \X TinyExponentOperands \X TinyExponents)

\* tol: 0.1, the default 1e-12, and 1e-17
Tolerances == {Complex(1, 0, 1, 1), Complex(1, 0, 1, 12), Complex(1, 0, 1, 17)}

\* boundary_threshold: the default 0.90, and 0.5
Thresholds == {Complex(9, 0, 1, 1), Complex(5, 0, 1, 1)}

Init ==
    /\ \E op \in Operations :
          /\ x = op[1]
          /\ y = op[2]
          /\ alpha = op[3]
    /\ tol \in Tolerances
    /\ max_terms \in 1..MaxTermsHi
    /\ boundary_threshold \in Thresholds
    /\ return_info \in BOOLEAN
    /\ pc = "zero_x"
    /\ A = Zero
    /\ z = Zero
    /\ S = Zero
    /\ term = Zero
    /\ k = 0
    /\ effective_max = 0
    /\ used_fallback = FALSE
    /\ result = NoResult
    /\ info = NoInfo
    /\ outcome = "running"
    /\ warned = {}
    /\ iters = 0
    /\ stop = "none"

\* return result, info  /  return result
Return(res, inf) ==
    /\ result' = res
    /\ info' = IF return_info THEN inf ELSE NoInfo
    /\ outcome' = "returned"
    /\ pc' = "done"

\* Control moves on to the next statement
Goto(next) ==
    /\ pc' = next
    /\ UNCHANGED <<result, info, outcome>>

\* if x == 0 and y != 0
ZeroX ==
    /\ pc = "zero_x"
    /\ IF x = Zero /\ y # Zero
       THEN Return(Pow(y, alpha), EdgeInfo(FALSE, ZeroOperandZ))
       ELSE Goto("zero_y")
    /\ UNCHANGED <<request, locals, warned, loopvars>>

\* if y == 0 and x != 0, with the real-odd-root override
ZeroY ==
    /\ pc = "zero_y"
    /\ IF y = Zero /\ x # Zero
       THEN IF RealOddRootApplies(x, alpha)
            THEN Return(NegAbsPow(x, alpha),
                        [EdgeInfo(FALSE, ZeroOperandZ)
                            EXCEPT !.keys = @ \cup {"note"},
                                   !.note = "real odd root"])
            ELSE Return(Pow(x, alpha), EdgeInfo(FALSE, ZeroOperandZ))
       ELSE Goto("cancelling")
    /\ UNCHANGED <<request, locals, warned, loopvars>>

\* Variant of CancellingInteger: only positive integers cancel.
CancellingPositiveInteger(x0, y0, alpha0) ==
    /\ x0 = Neg(y0)
    /\ alpha0.im = 0
    /\ IsInteger(RealPart(alpha0))
    /\ alpha0.re > 0

\* x == -y and alpha.imag == 0 and alpha.real.is_integer()
CancellingInteger(x0, y0, alpha0) ==
    /\ x0 = Neg(y0)
    /\ alpha0.im = 0
    /\ IsInteger(RealPart(alpha0))

Cancelling ==
    /\ pc = "cancelling"
    /\ IF CancellingInteger(x, y, alpha)
       THEN Return(ZeroResult, EdgeInfo(FALSE, EqualModulusZ))
       ELSE Goto("zero_sum")
    /\ UNCHANGED <<request, locals, warned, loopvars>>

\* Variants of PositiveReal: the imaginary part is not looked at; the bound
\* is 1 instead of 0.
PositiveRealPartOnly(alpha0) == alpha0.re > 0

PositiveRealAboveOne(alpha0) ==
    alpha0.im = 0 /\ alpha0.re > 0 /\ AbsLt(One, alpha0)

\* alpha.real > 0 and alpha.imag == 0
PositiveReal(alpha0) == alpha0.re > 0 /\ alpha0.im = 0

\* if x + y == 0
ZeroSum ==
    /\ pc = "zero_sum"
    /\ IF Add(x, y) = Zero
       THEN IF PositiveReal(alpha)
            THEN Return(ZeroResult, EdgeInfo(ZeroSumFallback, EqualModulusZ))
            ELSE /\ outcome' = "raised"
                 /\ pc' = "done"
                 /\ UNCHANGED <<result, info>>
       ELSE Goto("precondition")
    /\ UNCHANGED <<request, locals, warned, loopvars>>

\* ax, ay = abs(x), abs(y) and the choice of the dominant operand
Precondition ==
    /\ pc = "precondition"
    /\ IF AbsLt(x, y)
       THEN /\ A' = y
            /\ z' = Div(x, y)
            /\ Goto("boundary")
            /\ UNCHANGED warned
       ELSE IF AbsLt(y, x)
            THEN /\ A' = x
                 /\ z' = Div(y, x)
                 /\ Goto("boundary")
                 /\ UNCHANGED warned
            ELSE /\ warned' = warned \cup {"equal_magnitude"}
                 /\ Return(ExpLog(alpha, Add(x, y)), EdgeInfo(TRUE, EqualModulusZ))
                 /\ UNCHANGED <<A, z>>
    /\ UNCHANGED <<request, S, term, k, effective_max, used_fallback, loopvars>>

\* if abs(z) > boundary_threshold
Boundary ==
    /\ pc = "boundary"
    /\ IF AbsLt(boundary_threshold, z)
       THEN /\ warned' = warned \cup {"boundary"}
            /\ used_fallback' = TRUE
            /\ Return(ExpLog(alpha, Add(x, y)), EdgeInfo(TRUE, Some(z)))
       ELSE /\ used_fallback' = FALSE
            /\ Goto("series")
            /\ UNCHANGED warned
    /\ UNCHANGED <<request, A, z, S, term, k, effective_max, loopvars>>

\* 0.75
BandLow == Complex(75, 0, 1, 2)

\* effective_max: max_terms, tripled when 0.75 < abs(z) <= boundary_threshold
EffectiveMax(mt, z0, threshold) ==
    IF AbsLt(BandLow, z0) /\ ~AbsLt(threshold, z0)
    THEN IMax(mt, mt * 3)
    ELSE mt

\* S, term, k and effective_max before the loop
SeriesInit ==
    /\ pc = "series"
    /\ S' = One
    /\ term' = One
    /\ k' = 1
    /\ effective_max' = EffectiveMax(max_terms, z, boundary_threshold)
    /\ Goto("loop")
    /\ UNCHANGED <<request, A, z, used_fallback, warned, loopvars>>

\* Variant of LoopGuard: one more run of the body.
LoopGuardInclusive(k0, eff) == k0 <= eff + 1

\* while k <= effective_max
LoopGuard(k0, eff) == k0 <= eff

\* (alpha - k + 1) * z / k
Multiplier(alpha0, z0, k0) ==
    DivInt(Mul(Add(alpha0, FromInt(1 - k0)), z0), k0)

\* 1e-16 and 1e-14
RelativeFloor == Complex(1, 0, 1, 16)

AbsoluteFloor == Complex(1, 0, 1, 14)

\* abs(term) < 1e-16 * abs(S) or abs(term) < 1e-14
Negligible(term0, S0) ==
    \/ AbsLt(term0, Mul(RelativeFloor, S0))
    \/ AbsLt(term0, AbsoluteFloor)

\* abs(term) < tol * abs(S)
Converged(term0, tol0, S0) == AbsLt(term0, Mul(tol0, S0))

\* One run of the loop body
LoopStep ==
    /\ pc = "loop"
    /\ LoopGuard(k, effective_max)
    /\ iters' = iters + 1
    /\ LET t == Mul(term, Multiplier(alpha, z, k))
       IN  /\ term' = t
           /\ IF Negligible(t, S)
              THEN /\ S' = S
                   /\ k' = k
                   /\ stop' = "floor"
                   /\ pc' = "after_loop"
              ELSE LET s == Add(S, t)
                   IN  /\ S' = s
                       /\ IF Converged(t, tol, s)
                          THEN /\ k' = k
                               /\ stop' = "tolerance"
                               /\ pc' = "after_loop"
                          ELSE /\ k' = k + 1
                               /\ stop' = stop
                               /\ pc' = "loop"
    /\ UNCHANGED <<request, A, z, effective_max, used_fallback, result, info,
                   outcome, warned>>

\* The loop condition fails
LoopExit ==
    /\ pc = "loop"
    /\ ~LoopGuard(k, effective_max)
    /\ stop' = "exhausted"
    /\ pc' = "after_loop"
    /\ UNCHANGED <<request, locals, result, info, outcome, warned, iters>>

\* Variants of NoConvergence: the count is compared with ==; the tolerance is
\* not looked at.
NoConvergenceAtMax(k0, eff, term0, tol0, S0) ==
    k0 = eff /\ ~AbsLt(term0, Mul(tol0, S0))

NoConvergenceByCount(k0, eff, term0, tol0, S0) == k0 >= eff

\* if k >= effective_max and abs(term) >= tol * abs(S)
NoConvergence(k0, eff, term0, tol0, S0) ==
    k0 >= eff /\ ~AbsLt(term0, Mul(tol0, S0))

\* "terms_used": k
TermsUsed(k0) == k0

\* The warning, A_power * S and the diagnostics of the series
Finish ==
    /\ pc = "after_loop"
    /\ warned' = IF NoConvergence(k, effective_max, term, tol, S)
                 THEN warned \cup {"no_convergence"}
                 ELSE warned
    /\ Return(SeriesResult(A, alpha, S),
              [keys |-> {"terms_used", "last_term_abs", "converged",
                         "used_fallback", "z", "base"},
               terms_used |-> TermsUsed(k),
               used_fallback |-> used_fallback,
               z |-> Some(z),
               note |-> "",
               last_term_abs |-> term,
               converged |-> Converged(term, tol, S),
               base |-> A])
    /\ UNCHANGED <<request, locals, loopvars>>

Next ==
    \/ ZeroX
    \/ ZeroY
    \/ Cancelling
    \/ ZeroSum
    \/ Precondition
    \/ Boundary
    \/ SeriesInit
    \/ LoopStep
    \/ LoopExit
    \/ Finish

Spec == Init /\ [][Next]_vars

----------------------------------------------------------------------------
(* Properties *)

Done == pc = "done"

Returned == Done /\ outcome = "returned"

Raised == Done /\ outcome = "raised"

\* A call that returned its diagnostics record
WithDiagnostics == Returned /\ return_info

\* 0.75 < |z| <= boundary_threshold for the ratio the call computed
InBand == AbsLt(BandLow, z) /\ ~AbsLt(boundary_threshold, z)

\* effective_max_terms as the specification states it
Budget == IF InBand THEN 3 * max_terms ELSE max_terms

Advised == "no_convergence" \in warned

\* The ratio of the operand of smaller modulus to the other one
Ratio == IF AbsLt(x, y) THEN Div(x, y) ELSE Div(y, x)

\* C1 (as stated): whenever diagnostics are returned, terms_used is at most
\* effective_max_terms, also when the loop ran to exhaustion.
C1_TermsUsedWithinBudget ==
    WithDiagnostics => info.terms_used <= Budget

\* C2 (as stated): with y = -x the call raises when alpha is complex or real
\* and <= 0, and returns 0 when alpha is real and > 0.
C2_ZeroSumAsStated ==
    (Done /\ y = Neg(x)) =>
        IF alpha.im # 0 \/ alpha.re <= 0
        THEN outcome = "raised"
        ELSE outcome = "returned" /\ result = ZeroResult

\* C2 (amended): with y = -x the call returns 0 when alpha is a real integer
\* of any sign or real and > 0, and raises when alpha is complex or a negative
\* real that is no integer.
C2_ZeroSumOutcome ==
    (Done /\ y = Neg(x)) =>
        IF alpha.im = 0 /\ (alpha.re > 0 \/ IsInteger(alpha))
        THEN outcome = "returned" /\ result = ZeroResult
        ELSE outcome = "raised"

C2_Witness ==
    /\ Raised
    /\ y = Neg(x)
    /\ alpha.im = 0
    /\ alpha.re < 0

\* C3: the call raises only when x + y = 0, no earlier case applies and alpha
\* is complex or real and <= 0; every other call returns a value, and a call
\* that emitted an advisory returned its value.
C3_OnlyDomainError ==
    LET zeroSumFailure ==
            /\ Add(x, y) = Zero
            /\ ~(alpha.im = 0 /\ IsInteger(alpha))
            /\ (alpha.im # 0 \/ alpha.re <= 0)
    IN  /\ outcome = "raised" => zeroSumFailure
        /\ Done => outcome \in {"returned", "raised"}
        /\ (Done /\ ~zeroSumFailure) =>
               (outcome = "returned" /\ result.form # "none")
        /\ (Done /\ warned # {}) => outcome = "returned"

C3_Witness ==
    /\ Returned
    /\ warned = {"no_convergence"}
    /\ result.form = "series"

\* C4: for nonzero x and a real integer alpha of any sign, the call with
\* y = -x returns exactly 0 and does not raise.
C4_CancellingInteger ==
    (Done /\ x # Zero /\ y = Neg(x) /\ alpha.im = 0 /\ IsInteger(alpha)) =>
        (outcome = "returned" /\ result = ZeroResult)

C4_Witness ==
    /\ Returned
    /\ x # Zero
    /\ y = Neg(x)
    /\ alpha = FromInt(-1)
    /\ result = ZeroResult

\* C5 (as stated): z is the ratio B/A on the boundary-fallback and series
\* paths and null in every edge case, the zero-operand ones included.
C5_ZAsStated ==
    WithDiagnostics =>
        IF x # Zero /\ y # Zero /\ (AbsLt(x, y) \/ AbsLt(y, x))
        THEN info.z = Some(Ratio)
        ELSE "z" \notin info.keys \/ info.z = None

\* C5 (amended): z is the ratio B/A whenever |x| # |y|, which is 0 in the
\* zero-operand outcomes, and null exactly when |x| = |y| (cancelling integer,
\* zero sum, equal magnitude).
C5_ZReported ==
    WithDiagnostics =>
        /\ "z" \in info.keys
        /\ info.z = IF AbsLt(x, y) \/ AbsLt(y, x) THEN Some(Ratio) ELSE None

C5_Witness ==
    /\ WithDiagnostics
    /\ x # Zero
    /\ y = Zero
    /\ info.z = Some(Zero)

\* C6: a loop that ran to exhaustion emits the non-convergence advisory and
\* the call returns A^alpha * S for the partial sum S.
C6_ExhaustionAdvised ==
    (Done /\ stop = "exhausted") =>
        /\ Advised
        /\ outcome = "returned"
        /\ result = [form |-> "series",
                     a |-> IF AbsLt(x, y) THEN y ELSE x,
                     b |-> alpha,
                     s |-> S]

C6_Witness ==
    /\ Returned
    /\ stop = "exhausted"
    /\ iters = 3 * max_terms
    /\ Advised

\* Statements still to run, with the runs of the loop body still allowed
Remaining ==
    CASE pc = "zero_x" -> 8
      [] pc = "zero_y" -> 7
      [] pc = "cancelling" -> 6
      [] pc = "zero_sum" -> 5
      [] pc = "precondition" -> 4
      [] pc = "boundary" -> 3
      [] pc = "series" -> 2
      [] pc = "loop" -> 1
      [] pc = "after_loop" -> 0
      [] OTHER -> 0

Measure ==
    IF Done THEN 0
    ELSE 1 + (3 * MaxTermsHi + 2) * Remaining
           + (IF pc = "loop" THEN 1 + Budget - iters ELSE 0)

\* C7: every call terminates (a call that is not done is at a statement of
\* the function, and every step brings it closer to done); the loop body runs
\* at most effective_max_terms times, and not at all in a call that ends
\* before the series.
C7_Terminates ==
    /\ [](Done \/ Remaining > 0 \/ pc = "after_loop")
    /\ [][Measure' < Measure]_vars
    /\ [](iters <= Budget)
    /\ []((Done /\ result.form # "series") => iters = 0)

C7_Witness ==
    /\ Done
    /\ InBand
    /\ max_terms = 2
    /\ iters = 6

\* C8 (as stated): an outcome that ends before the series reports
\* terms_used = 0, and used_fallback = true exactly when the value is
\* exp(alpha * log(x + y)).
C8_FallbackFlagAsStated ==
    (WithDiagnostics /\ result.form # "series") =>
        /\ info.terms_used = 0
        /\ info.used_fallback = (result.form = "exp_log")

\* C9 (as stated): the real odd root r returned for a negative real x and
\* alpha = p/q, q odd, satisfies r^q = x^p (checked where |x|^(p/q) is an
\* integer and p >= 0).
C9_RealRootAsStated ==
    LET f == Fraction(alpha)
    IN  (Returned /\ result.form = "neg_abs_pow" /\ f[1] >= 0 /\ f[2] % 2 = 1
           /\ IsInteger(x) /\ HasAbsRoot(x.re, f[1], f[2])) =>
            IntPow(-AbsRoot(x.re, f[1], f[2]), f[2]) = IntPow(x.re, f[1])

\* C10 (as stated): on the series path the advisory is emitted if and only if
\* converged = false, and never after a stop by one of the two tests.
C10_AdvisoryAsStated ==
    (WithDiagnostics /\ result.form = "series") =>
        /\ Advised <=> ~info.converged
        /\ stop \in {"floor", "tolerance"} => ~Advised

\* C10 (amended): the advisory implies converged = false; a stop by the
\* relative-tolerance test reports converged = true without the advisory;
\* exhaustion reports converged = false with the advisory; a stop by the
\* floor test emits the advisory exactly when converged = false and
\* terms_used = effective_max_terms.
C10_AdvisoryAndDiagnostics ==
    (WithDiagnostics /\ result.form = "series") =>
        /\ Advised => ~info.converged
        /\ stop = "tolerance" => (info.converged /\ ~Advised)
        /\ stop = "exhausted" => (~info.converged /\ Advised)
        /\ stop = "floor" =>
              (Advised <=> (~info.converged /\ info.terms_used = Budget))

C10_Witness ==
    /\ WithDiagnostics
    /\ result.form = "series"
    /\ stop = "floor"
    /\ ~info.converged
    /\ ~Advised

====
